---- MODULE Spec2Model ----
(***************************************************************************)
(* Model of stats.c: column statistics over caller-owned row-major         *)
(* matrices (stat_mean, stat_std, remove_mean_col, modify_mean_stddev,     *)
(* randn, randn_mtx, show_matrix).                                         *)
(*                                                                         *)
(* A double is modelled by an exact value: a reduced fraction, +/-inf, NaN,*)
(* the square root of a fraction that is no perfect square, or the finite  *)
(* sample randn() computes from a draw strictly between 0 and RAND_MAX.    *)
(* Rounding is not modelled.  Every loop iteration is one step.            *)
(***************************************************************************)
EXTENDS Integers, Sequences, FiniteSets, TLC

\* ---------------------------------------------------------------- bounds
MaxDim == 3
MaxCalls == 2
RAND_MAX == 7

\* ------------------------------------------------------- double values
Abs(x) == IF x < 0 THEN -x ELSE x

RECURSIVE GCD(_, _)
GCD(x, y) == IF y = 0 THEN x ELSE GCD(y, x % y)

V(k, n, d) == [k |-> k, n |-> n, d |-> d]

\* the fraction n/d (d # 0) in lowest terms with a positive denominator
Norm(n, d) ==
    LET g == GCD(Abs(n), Abs(d))
        s == IF d < 0 THEN -1 ELSE 1
    IN  V("num", (s * n) \div g, (s * d) \div g)

Num(n) == V("num", n, 1)
PosInf == V("inf", 1, 0)
NegInf == V("inf", -1, 0)
NaN == V("nan", 0, 0)
NoValue == V("none", 0, 0)

IsNum(x) == x.k = "num"
IsFinite(x) == x.k \in {"num", "sqrt", "randn"}
Sign(x) == IF x.n > 0 THEN 1 ELSE IF x.n < 0 THEN -1 ELSE 0

\* x + y of IEEE doubles
Add(x, y) ==
    IF x.k = "nan" \/ y.k = "nan" THEN NaN
    ELSE IF x.k = "inf" /\ y.k = "inf" THEN (IF x.n = y.n THEN x ELSE NaN)
    ELSE IF x.k = "inf" THEN x
    ELSE IF y.k = "inf" THEN y
    ELSE Norm(x.n * y.d + y.n * x.d, x.d * y.d)

\* x * y of IEEE doubles
Mul(x, y) ==
    IF x.k = "nan" \/ y.k = "nan" THEN NaN
    ELSE IF x.k = "inf" \/ y.k = "inf"
         THEN (IF Sign(x) * Sign(y) = 0 THEN NaN
               ELSE IF Sign(x) * Sign(y) > 0 THEN PosInf ELSE NegInf)
    ELSE Norm(x.n * y.n, x.d * y.d)

\* x - y of IEEE doubles
Sub(x, y) == Add(x, Mul(Num(-1), y))

\* x / y of IEEE doubles: a finite x over zero is an infinity, 0/0 is NaN
Div(x, y) ==
    IF x.k = "nan" \/ y.k = "nan" THEN NaN
    ELSE IF x.k = "inf" /\ y.k = "inf" THEN NaN
    ELSE IF x.k = "inf" THEN (IF Sign(x) * Sign(y) < 0 THEN NegInf ELSE PosInf)
    ELSE IF y.k = "inf" THEN Num(0)
    ELSE IF y.n = 0
         THEN (IF x.n = 0 THEN NaN ELSE IF x.n > 0 THEN PosInf ELSE NegInf)
    ELSE Norm(x.n * y.d, x.d * y.n)

\* the largest r in lo..hi with r * r <= n, found by bisection
RECURSIVE Bisect(_, _, _)
Bisect(n, lo, hi) ==
    IF lo >= hi THEN lo
    ELSE LET mid == (lo + hi + 1) \div 2
         IN  IF mid <= n \div mid THEN Bisect(n, mid, hi) ELSE Bisect(n, lo, mid - 1)

Root(n) == Bisect(n, 0, n)
IsSquare(n) == Root(n) * Root(n) = n

\* sqrt(x) of <math.h>
Sqrt(x) ==
    IF x.k = "nan" THEN NaN
    ELSE IF x.k = "inf" THEN (IF x.n > 0 THEN PosInf ELSE NaN)
    ELSE IF x.n < 0 THEN NaN
    ELSE IF IsSquare(x.n) /\ IsSquare(x.d) THEN V("num", Root(x.n), Root(x.d))
    ELSE V("sqrt", x.n, x.d)

\* log(x) of <math.h> for 0 <= x <= 1: -inf at 0, 0 at 1, negative between
Log(x) ==
    IF x.k # "num" THEN NaN
    ELSE IF x.n = 0 THEN NegInf
    ELSE IF x.n = x.d THEN Num(0)
    ELSE IF x.n < 0 THEN NaN
    ELSE V("log", x.n, x.d)

\* cos(Twopi * x) for 0 <= x <= 1: 1 at both ends, a finite value between
CosTwopi(x) ==
    IF x.k # "num" THEN NaN
    ELSE IF x.n = 0 \/ x.n = x.d THEN Num(1)
    ELSE V("cos", x.n, x.d)

\* rand() of <stdlib.h>: the next generator state, which is also the value
\* returned, in 0..RAND_MAX
Rand(s) == (5 * s + 3) % (RAND_MAX + 1)

\* lines 134-139: the raw draw r divided by RAND_MAX
RandnUniform(r) == Div(Num(r), Num(RAND_MAX))

\* lines 140-141: sqrt(-2.0 * log(u)) * cos(Twopi * u); for 0 < u < 1 this is
\* a finite value determined by u
RandnNorm(u) ==
    LET lg == Log(u)
    IN  IF lg.k = "log"
        THEN V("randn", u.n, u.d)
        ELSE Mul(Sqrt(Mul(Num(-2), lg)), CosTwopi(u))

\* ------------------------------------------------------------- state
VARIABLES
    dim_i, dim_j,   \* the dimensions the caller's buffers were allocated for
    mem,            \* the caller's buffers: a, b, mtx (matrices), mean, std
    seed,           \* state of the process-wide generator behind rand()
    pc, op,         \* position in the running call, and which call it is
    i, j,           \* loop counters of the running call
    dst,            \* the buffer bound to the pointer argument that varies
    new_mean, new_stddev,   \* arguments of modify_mean_stddev
    random, ret,    \* randn: its local after line 139, and its return value
    divisor,        \* stat_std: the divisor of line 82
    out,            \* show_matrix: what was printed by the running call
    acc,            \* buffer accesses made by the last step
    beyond,         \* offsets written past the end of a buffer
    pre,            \* mem when the running call was entered
    seed0, draws,   \* seed at entry, raw values drawn since
    mismatch,       \* modify_mean_stddev: some write offset # read offset
    ncalls

vars == <<dim_i, dim_j, mem, seed, pc, op, i, j, dst, new_mean, new_stddev,
          random, ret, divisor, out, acc, beyond, pre, seed0, draws,
          mismatch, ncalls>>

Dims == 1..MaxDim
Patterns == {"ramp", "colconst", "mixed"}
Params == {<<1, 1>>, <<2, 1>>}
\* generator states the caller may have seeded before the first call
Seeds == {0, 1}

Size == dim_i * dim_j
BufSize(buf) == IF buf \in {"mean", "std"} THEN dim_j ELSE Size

\* contents the caller may have put in the matrix a before the first call
Content(p, k, dj) ==
    CASE p = "ramp" -> k + 1
      [] p = "colconst" -> (k % dj) + 1
      [] p = "mixed" -> ((k * k) % 5) - 2

\* what the output buffers hold before the first call
Garbage(p) ==
    CASE p = "ramp" -> 7
      [] p = "colconst" -> 0
      [] p = "mixed" -> -3

Rd(buf, off) == [buf |-> buf, off |-> off, w |-> FALSE]
Wr(buf, off) == [buf |-> buf, off |-> off, w |-> TRUE]
InBounds(x) == x.off >= 0 /\ x.off < BufSize(x.buf)

Store(m, buf, off, v) == [m EXCEPT ![buf][off] = v]

Init ==
    /\ dim_i \in Dims
    /\ dim_j \in Dims
    /\ \E p \in Patterns :
         mem = [a    |-> [k \in 0..(dim_i * dim_j - 1) |-> Num(Content(p, k, dim_j))],
                b    |-> [k \in 0..(dim_i * dim_j - 1) |-> Num(Garbage(p))],
                mtx  |-> [k \in 0..(dim_i * dim_j - 1) |-> Num(Garbage(p))],
                mean |-> [k \in 0..(dim_j - 1) |-> Num(Garbage(p))],
                std  |-> [k \in 0..(dim_j - 1) |-> Num(Garbage(p))]]
    /\ seed \in Seeds
    /\ pc = "idle"
    /\ op = "none"
    /\ i = 0
    /\ j = 0
    /\ dst = "b"
    /\ new_mean = Num(0)
    /\ new_stddev = Num(1)
    /\ random = NoValue
    /\ ret = NoValue
    /\ divisor = NoValue
    /\ out = <<>>
    /\ acc = {}
    /\ beyond = {}
    /\ pre = mem
    /\ seed0 = seed
    /\ draws = <<>>
    /\ mismatch = FALSE
    /\ ncalls = 0

\* entry of a call: arguments bound, locals initialised
Enter(o, label) ==
    /\ pc = "idle"
    /\ ncalls < MaxCalls
    /\ op' = o
    /\ pc' = label
    /\ i' = 0
    /\ j' = 0
    /\ random' = NoValue
    /\ ret' = NoValue
    /\ divisor' = NoValue
    /\ out' = <<>>
    /\ acc' = {}
    /\ pre' = mem
    /\ seed0' = seed
    /\ draws' = <<>>
    /\ mismatch' = FALSE
    /\ UNCHANGED <<dim_i, dim_j, mem, seed, beyond, ncalls>>

\* for (i..) for (j..): the counters after one pass of the inner body
LastIter == i = dim_i - 1 /\ j = dim_j - 1
NextI == IF j + 1 < dim_j THEN i ELSE i + 1
NextJ == IF j + 1 < dim_j THEN j + 1 ELSE 0

Frame == UNCHANGED <<dim_i, dim_j, op, dst, new_mean, new_stddev, pre, seed0, ncalls>>

Locals == UNCHANGED <<random, ret, divisor, out, beyond, seed, draws, mismatch>>

\* ------------------------------------------------------------ stat_mean
Call_stat_mean ==
    /\ Enter("stat_mean", "mean_init")
    /\ UNCHANGED <<dst, new_mean, new_stddev>>

\* line 37: mean[j] = 0
stat_mean_init ==
    /\ pc = "mean_init"
    /\ mem' = Store(mem, "mean", j, Num(0))
    /\ acc' = {Wr("mean", j)}
    /\ IF j + 1 < dim_j
       THEN /\ j' = j + 1
            /\ UNCHANGED <<pc, i>>
       ELSE /\ j' = 0
            /\ i' = 0
            /\ pc' = "mean_sum"
    /\ Locals
    /\ Frame

\* lines 42, 44: the offset of a read for column j of row i
MeanReadOffset == j + i * dim_j

\* line 44: mean[j] += a[j + n]
stat_mean_sum ==
    /\ pc = "mean_sum"
    /\ mem' = Store(mem, "mean", j, Add(mem.mean[j], mem.a[MeanReadOffset]))
    /\ acc' = {Rd("a", MeanReadOffset), Rd("mean", j), Wr("mean", j)}
    /\ IF LastIter
       THEN /\ pc' = "mean_div"
            /\ i' = 0
            /\ j' = 0
       ELSE /\ i' = NextI
            /\ j' = NextJ
            /\ UNCHANGED pc
    /\ Locals
    /\ Frame

\* mutant of MeanDivisor: the column count taken for the row count
MeanDivisor_ByColumns == Num(dim_j)

\* line 50: the divisor of the column sums
MeanDivisor == Num(dim_i)

\* line 50: mean[j] /= dim_i
stat_mean_div ==
    /\ pc = "mean_div"
    /\ mem' = Store(mem, "mean", j, Div(mem.mean[j], MeanDivisor))
    /\ acc' = {Rd("mean", j), Wr("mean", j)}
    /\ IF j + 1 < dim_j
       THEN /\ j' = j + 1
            /\ UNCHANGED pc
       ELSE /\ j' = 0
            /\ pc' = "done"
    /\ UNCHANGED i
    /\ Locals
    /\ Frame

\* ------------------------------------------------------------- stat_std
Call_stat_std ==
    /\ Enter("stat_std", "std_init")
    /\ UNCHANGED <<dst, new_mean, new_stddev>>

\* mutant of StdBuf: stat_std accumulating into its mean argument
StdBuf_Mean == "mean"

\* the buffer the parameter std of stat_std is bound to
StdBuf == "std"

\* line 69: std[j] = 0
stat_std_init ==
    /\ pc = "std_init"
    /\ mem' = Store(mem, StdBuf, j, Num(0))
    /\ acc' = {Wr(StdBuf, j)}
    /\ IF j + 1 < dim_j
       THEN /\ j' = j + 1
            /\ UNCHANGED <<pc, i>>
       ELSE /\ j' = 0
            /\ i' = 0
            /\ pc' = "std_sum"
    /\ Locals
    /\ Frame

\* line 76: std[j] += (a[j + n] - mean[j]) * (a[j + n] - mean[j])
stat_std_sum ==
    /\ pc = "std_sum"
    /\ LET n == i * dim_j
           dev == Sub(mem.a[j + n], mem.mean[j])
       IN  /\ mem' = Store(mem, StdBuf, j, Add(mem[StdBuf][j], Mul(dev, dev)))
           /\ acc' = {Rd("a", j + n), Rd("mean", j), Rd(StdBuf, j), Wr(StdBuf, j)}
    /\ IF LastIter
       THEN /\ pc' = "std_div"
            /\ i' = 0
            /\ j' = 0
       ELSE /\ i' = NextI
            /\ j' = NextJ
            /\ UNCHANGED pc
    /\ Locals
    /\ Frame

\* mutants of StdDivisor: the population divisor; a guard for one row
StdDivisor_Population == Num(dim_i)
StdDivisor_Guarded == IF dim_i = 1 THEN Num(1) ELSE Num(dim_i - 1)

\* line 82: (double)(dim_i - 1)
StdDivisor == Num(dim_i - 1)

\* lines 82-83: std[j] /= (double)(dim_i - 1); std[j] = sqrt(std[j])
stat_std_div ==
    /\ pc = "std_div"
    /\ divisor' = StdDivisor
    /\ mem' = Store(mem, StdBuf, j, Sqrt(Div(mem[StdBuf][j], StdDivisor)))
    /\ acc' = {Rd(StdBuf, j), Wr(StdBuf, j)}
    /\ IF j + 1 < dim_j
       THEN /\ j' = j + 1
            /\ UNCHANGED pc
       ELSE /\ j' = 0
            /\ pc' = "done"
    /\ UNCHANGED <<i, random, ret, out, beyond, seed, draws, mismatch>>
    /\ Frame

\* ------------------------------------------------------ remove_mean_col
\* b is either a buffer of its own or the buffer a itself
Call_remove_mean_col ==
    /\ Enter("remove_mean_col", "rm_loop")
    /\ dst' \in {"a", "b"}
    /\ UNCHANGED <<new_mean, new_stddev>>

\* mutant of RemoveMeanValue: the mean of the first column for every column
RemoveMeanValue_FirstColumn == Sub(mem.a[i * dim_j + j], mem.mean[0])

\* line 102: the value stored for row i, column j
RemoveMeanValue == Sub(mem.a[i * dim_j + j], mem.mean[j])

\* line 102: b[i * dim_j + j] = a[i * dim_j + j] - mean[j]
remove_mean_col_step ==
    /\ pc = "rm_loop"
    /\ mem' = Store(mem, dst, i * dim_j + j, RemoveMeanValue)
    /\ acc' = {Rd("a", i * dim_j + j), Rd("mean", j), Wr(dst, i * dim_j + j)}
    /\ IF LastIter
       THEN /\ pc' = "done"
            /\ i' = 0
            /\ j' = 0
       ELSE /\ i' = NextI
            /\ j' = NextJ
            /\ UNCHANGED pc
    /\ Locals
    /\ Frame

\* --------------------------------------------------- modify_mean_stddev
Call_modify_mean_stddev ==
    /\ Enter("modify_mean_stddev", "mod_loop")
    /\ \E prm \in Params :
         /\ new_stddev' = Num(prm[1])
         /\ new_mean' = Num(prm[2])
    /\ UNCHANGED dst

\* mutant of ModifyWriteOffset: the row stride dim_j on both sides
ModifyWriteOffset_RowStride == i * dim_j + j

\* line 122: the offset written, and the offset read
ModifyWriteOffset == i * dim_i + j
ModifyReadOffset == i * dim_j + j

\* line 122: mtx[i * dim_i + j] = (mtx[i * dim_j + j] * new_stddev) + new_mean
\* A write past the end of mtx is undefined: the call faults, or the value
\* lands in memory past the buffer, which may be the buffer allocated next.
modify_mean_stddev_step ==
    /\ pc = "mod_loop"
    /\ LET w == ModifyWriteOffset
           r == ModifyReadOffset
           val == Add(Mul(mem.a[r], new_stddev), new_mean)
           advance == IF LastIter
                      THEN /\ pc' = "done"
                           /\ i' = 0
                           /\ j' = 0
                      ELSE /\ i' = NextI
                           /\ j' = NextJ
                           /\ UNCHANGED pc
       IN  /\ acc' = {Rd("a", r), Wr("a", w)}
           /\ mismatch' = (mismatch \/ w # r)
           /\ IF w < Size
              THEN /\ mem' = Store(mem, "a", w, val)
                   /\ UNCHANGED beyond
                   /\ advance
              ELSE \/ /\ pc' = "crashed"
                      /\ UNCHANGED <<mem, beyond, i, j>>
                   \/ /\ beyond' = beyond \cup {w}
                      /\ UNCHANGED mem
                      /\ advance
                   \/ /\ w - Size < Size
                      /\ mem' = Store(mem, "b", w - Size, val)
                      /\ UNCHANGED beyond
                      /\ advance
    /\ UNCHANGED <<random, ret, divisor, out, seed, draws>>
    /\ Frame

\* ---------------------------------------------------------------- randn
Call_randn ==
    /\ Enter("randn", "randn_body")
    /\ UNCHANGED <<dst, new_mean, new_stddev>>

\* lines 133-142, one call of randn()
randn ==
    /\ seed' = Rand(seed)
    /\ draws' = Append(draws, seed')
    /\ random' = RandnUniform(seed')
    /\ ret' = RandnNorm(random')

randn_body ==
    /\ pc = "randn_body"
    /\ randn
    /\ pc' = "done"
    /\ acc' = {}
    /\ UNCHANGED <<mem, i, j, divisor, out, beyond, mismatch>>
    /\ Frame

\* ------------------------------------------------------------ randn_mtx
Call_randn_mtx ==
    /\ Enter("randn_mtx", "rmtx_loop")
    /\ UNCHANGED <<dst, new_mean, new_stddev>>

\* mutant of RandnMtxOffset: column-major addressing
RandnMtxOffset_ColumnMajor == j * dim_i + i

\* line 160: the offset of element (i, j)
RandnMtxOffset == i * dim_j + j

\* line 160: mtx[i * dim_j + j] = randn()
randn_mtx_step ==
    /\ pc = "rmtx_loop"
    /\ randn
    /\ mem' = Store(mem, "mtx", RandnMtxOffset, ret')
    /\ acc' = {Wr("mtx", RandnMtxOffset)}
    /\ IF LastIter
       THEN /\ pc' = "done"
            /\ i' = 0
            /\ j' = 0
       ELSE /\ i' = NextI
            /\ j' = NextJ
            /\ UNCHANGED pc
    /\ UNCHANGED <<divisor, out, beyond, mismatch>>
    /\ Frame

\* ---------------------------------------------------------- show_matrix
Call_show_matrix ==
    /\ Enter("show_matrix", "show_loop")
    /\ dst' \in {"a", "mtx"}
    /\ UNCHANGED <<new_mean, new_stddev>>

Newline == V("nl", 0, 0)

\* lines 178-180: printf("%2.5f ", A[i * dim_j + j]), and printf("\n") after
\* the last column of a row
show_matrix_step ==
    /\ pc = "show_loop"
    /\ out' = IF j + 1 < dim_j
              THEN Append(out, mem[dst][i * dim_j + j])
              ELSE Append(Append(out, mem[dst][i * dim_j + j]), Newline)
    /\ acc' = {Rd(dst, i * dim_j + j)}
    /\ IF LastIter
       THEN /\ pc' = "done"
            /\ i' = 0
            /\ j' = 0
       ELSE /\ i' = NextI
            /\ j' = NextJ
            /\ UNCHANGED pc
    /\ UNCHANGED <<mem, random, ret, divisor, beyond, seed, draws, mismatch>>
    /\ Frame

\* ---------------------------------------------------------------- return
Return ==
    /\ pc = "done"
    /\ pc' = "idle"
    /\ ncalls' = ncalls + 1
    /\ UNCHANGED <<dim_i, dim_j, mem, seed, op, i, j, dst, new_mean, new_stddev,
                   random, ret, divisor, out, acc, beyond, pre, seed0, draws,
                   mismatch>>

Next ==
    \/ Call_stat_mean
    \/ stat_mean_init
    \/ stat_mean_sum
    \/ stat_mean_div
    \/ Call_stat_std
    \/ stat_std_init
    \/ stat_std_sum
    \/ stat_std_div
    \/ Call_remove_mean_col
    \/ remove_mean_col_step
    \/ Call_modify_mean_stddev
    \/ modify_mean_stddev_step
    \/ Call_randn
    \/ randn_body
    \/ Call_randn_mtx
    \/ randn_mtx_step
    \/ Call_show_matrix
    \/ show_matrix_step
    \/ Return

Spec == Init /\ [][Next]_vars

\* ================================================================ claims
Done(o) == pc = "done" /\ op = o
Cells == 0..(Size - 1)
Cols == 0..(dim_j - 1)
Rows == 0..(dim_i - 1)
IsRamp(m) == \A k \in Cells : m[k] = Num(k + 1)

\* the value*new_stddev + new_mean of every element as it was at entry
Rescaled(k) == Add(Mul(pre.a[k], new_stddev), new_mean)
AllRescaled == \A k \in Cells : mem.a[k] = Rescaled(k)

\* C1: when modify_mean_stddev returns, every element of the matrix equals
\* its value at entry times new_stddev plus new_mean.
C1_EveryElementRescaledOnce == Done("modify_mean_stddev") => AllRescaled

\* C2: every offset an operation reads or writes lies inside the buffer it
\* addresses (0..dim_i*dim_j-1 for a matrix, 0..dim_j-1 for a column vector).
C2_NoOutOfBoundsAccess == \A x \in acc : InBounds(x)

\* sum of column c of matrix m over its first r rows, in row order
RECURSIVE ColSum(_, _, _)
ColSum(m, c, r) ==
    IF r = 0 THEN Num(0) ELSE Add(ColSum(m, c, r - 1), m[(r - 1) * dim_j + c])

\* C3: when stat_mean returns, mean[j] is the sum of column j over all rows
\* divided by dim_i, whatever mean held before; [[1,2],[3,4],[5,6]] gives
\* [3,4].
C3_MeanIsColumnAverage ==
    Done("stat_mean") =>
        /\ \A c \in Cols : mem.mean[c] = Div(ColSum(mem.a, c, dim_i), Num(dim_i))
        /\ (dim_i = 3 /\ dim_j = 2 /\ IsRamp(mem.a))
              => (mem.mean[0] = Num(3) /\ mem.mean[1] = Num(4))

C3_Witness ==
    /\ Done("stat_mean")
    /\ dim_i = 3
    /\ dim_j = 2
    /\ IsRamp(mem.a)
    /\ pre.mean[0] = Num(7)
    /\ mem.mean[1] = Num(4)

\* sum over the first r rows of the squared deviation of column c of m from
\* mu[c]
RECURSIVE ColSumSq(_, _, _, _)
ColSumSq(m, mu, c, r) ==
    IF r = 0 THEN Num(0)
    ELSE Add(ColSumSq(m, mu, c, r - 1),
             Mul(Sub(m[(r - 1) * dim_j + c], mu[c]), Sub(m[(r - 1) * dim_j + c], mu[c])))

\* C4: for dim_i >= 2, when stat_std returns, std[j] is the square root of
\* the sum of squared deviations of column j from the supplied mean[j]
\* divided by dim_i - 1, whatever std held before; a column equal to its
\* supplied mean gives 0, and [[1,2],[3,4],[5,6]] with mean [3,4] gives [2,2].
C4_StdIsSampleDeviation ==
    (Done("stat_std") /\ dim_i >= 2) =>
        /\ \A c \in Cols :
              mem.std[c] = Sqrt(Div(ColSumSq(mem.a, mem.mean, c, dim_i), Num(dim_i - 1)))
        /\ \A c \in Cols :
              (\A r \in Rows : mem.a[r * dim_j + c] = mem.mean[c]) => mem.std[c] = Num(0)
        /\ (dim_i = 3 /\ dim_j = 2 /\ IsRamp(mem.a)
               /\ mem.mean[0] = Num(3) /\ mem.mean[1] = Num(4))
              => (mem.std[0] = Num(2) /\ mem.std[1] = Num(2))

C4_Witness ==
    /\ Done("stat_std")
    /\ dim_i = 3
    /\ dim_j = 2
    /\ IsRamp(mem.a)
    /\ mem.mean[0] = Num(3)
    /\ mem.mean[1] = Num(4)
    /\ pre.std[0] = Num(7)
    /\ mem.std[1] = Num(2)

\* C5: when remove_mean_col returns, b[i*dim_j + j] is the value a[i*dim_j + j]
\* had at entry minus mean[j], both when b is a buffer of its own and when b
\* is a itself.
C5_RemoveMeanPerElement ==
    Done("remove_mean_col") =>
        \A k \in Cells : mem[dst][k] = Sub(pre.a[k], pre.mean[k % dim_j])

C5_Witness ==
    /\ Done("remove_mean_col")
    /\ dst = "a"
    /\ dim_i = 3
    /\ dim_j = 2
    /\ pre.mean[0] = Num(3)
    /\ pre.mean[1] = Num(4)
    /\ mem.a[0] = Num(-2)
    /\ mem.a[5] = Num(2)

\* the generator state after k draws from state s
RECURSIVE RandIter(_, _)
RandIter(s, k) == IF k = 0 THEN s ELSE Rand(RandIter(s, k - 1))

\* C6: randn_mtx draws one value per element in row-major order: after n
\* draws the elements at offsets 0..n-1 hold the samples of draws 1..n of the
\* stream from the entry state, the elements from offset n on are untouched,
\* and at return n = dim_i*dim_j; the matrix is a function of the entry state
\* and the dimensions.
C6_RandnMtxRowMajorStream ==
    (op = "randn_mtx" /\ pc \in {"rmtx_loop", "done"}) =>
        /\ Len(draws) = (IF pc = "done" THEN Size ELSE i * dim_j + j)
        /\ seed = RandIter(seed0, Len(draws))
        /\ \A k \in 1..Len(draws) :
              /\ draws[k] = RandIter(seed0, k)
              /\ mem.mtx[k - 1] = RandnNorm(RandnUniform(RandIter(seed0, k)))
        /\ \A k \in Cells : k >= Len(draws) => mem.mtx[k] = pre.mtx[k]

C6_Witness ==
    /\ Done("randn_mtx")
    /\ dim_i = 2
    /\ dim_j = 3
    /\ ncalls = 1
    /\ Len(draws) = 6
    /\ mem.mtx[1] # mem.mtx[3]

\* C7: the uniform value randn passes to the logarithm lies in (0, 1], and
\* the sample it returns is finite.
C7_UniformNeverZero ==
    random.k = "num" => (random.n > 0 /\ random.n <= random.d /\ IsFinite(ret))

\* C8: stat_std with dim_i = 1 is not rejected: it runs to its return having
\* divided by a divisor equal to 0, leaving no finite result; with
\* dim_i >= 2 the divisor is not zero.
C8_StdDivisorZeroIffOneRow ==
    /\ op = "stat_std" => pc # "crashed"
    /\ Done("stat_std") =>
          /\ dim_i = 1 => (divisor = Num(0) /\ \A c \in Cols : ~IsFinite(mem.std[c]))
          /\ dim_i >= 2 => (divisor.k = "num" /\ divisor.n # 0)

C8_Witness ==
    /\ Done("stat_std")
    /\ dim_i = 1
    /\ divisor = Num(0)
    /\ mem.std[0] = PosInf

\* C9: a step of stat_mean changes no buffer but mean, a step of stat_std no
\* buffer but std, a step of remove_mean_col with an output buffer of its own
\* no buffer but b; none of them changes the generator state, which only
\* randn and randn_mtx change.
C9_OutputOnlyWrites ==
    [][ /\ (pc # "idle" /\ op = "stat_mean") =>
              (\A f \in {"a", "b", "mtx", "std"} : mem'[f] = mem[f]) /\ seed' = seed
        /\ (pc # "idle" /\ op = "stat_std") =>
              (\A f \in {"a", "b", "mtx", "mean"} : mem'[f] = mem[f]) /\ seed' = seed
        /\ (pc # "idle" /\ op = "remove_mean_col" /\ dst = "b") =>
              (\A f \in {"a", "mtx", "mean", "std"} : mem'[f] = mem[f]) /\ seed' = seed
        /\ seed' # seed => (pc # "idle" /\ op \in {"randn", "randn_mtx"})
      ]_vars

C9_Witness ==
    /\ Done("stat_std")
    /\ ncalls = 1
    /\ mem.std # pre.std
    /\ mem.a = pre.a
    /\ mem.mean = pre.mean
    /\ seed = seed0

\* the rescaling moves every value: new_stddev = 1 and new_mean # 0
NoFixedPoint == new_stddev = Num(1) /\ new_mean # Num(0)

\* C10 as stated: modify_mean_stddev writes every element at the offset it
\* read it from, and rescales every element, if and only if dim_i = dim_j.
C10_CorrectIffSquare ==
    Done("modify_mean_stddev") =>
        /\ ~mismatch <=> (dim_i = dim_j)
        /\ (dim_i = dim_j) => AllRescaled
        /\ (dim_i # dim_j /\ NoFixedPoint) => ~AllRescaled

\* C10 amended: modify_mean_stddev writes every element at the offset it
\* read it from, and rescales every element, if and only if dim_i = dim_j or
\* dim_i = 1.
C10_CorrectIffSquareOrOneRow ==
    Done("modify_mean_stddev") =>
        /\ ~mismatch <=> (dim_i = dim_j \/ dim_i = 1)
        /\ (dim_i = dim_j \/ dim_i = 1) => AllRescaled
        /\ (dim_i # dim_j /\ dim_i # 1 /\ NoFixedPoint) => ~AllRescaled

C10_Witness ==
    /\ Done("modify_mean_stddev")
    /\ dim_i = 1
    /\ dim_j = 3
    /\ ~mismatch
    /\ AllRescaled
    /\ mem.a # pre.a

====
